---- MODULE Spec2Model ----
(***************************************************************************)
(* Model of the in-memory Ed25519 crypto service of                        *)
(* src/tuf/signed/ed25519.go: the key registry e.keys and the operations   *)
(* addKey, RemoveKey, ListKeys, ListAllKeys, Sign, Create, PublicKeys,     *)
(* GetKey and GetPrivateKey.                                               *)
(*                                                                         *)
(* Key material is symbolic.  A private key is generated from a seed read  *)
(* from the random source; the public key and the key ID are deterministic *)
(* functions of the seed and of the public key.  A signature records the   *)
(* private scalar and the message it was made from.                        *)
(***************************************************************************)
EXTENDS Integers, Sequences, FiniteSets, TLC

\* keys:    the registry e.keys, key ID -> edCryptoKey
\* call:    the operation last called, with its arguments; for Create also
\*          whether key generation failed, for addKey whether the key's
\*          identifier was already stored
\* ret:     what that operation returned
\* removed: the key IDs passed to RemoveKey and not inserted again since
\* access:  per thread, the operation whose access to the map e.keys is in
\*          progress ("idle" when none, "fatal" after the runtime aborted)
VARIABLES keys, call, ret, removed, access

vars == <<keys, call, ret, removed, access>>

(* ---- bounds ---- *)
MaxSeed == 2
MaxIDs == 2

(* ---- inputs ---- *)
Seeds == 1..MaxSeed
Roles == {"root", "targets"}
Messages == {"hello", "hellO"}
ED25519Key == "ed25519"
EDDSASignature == "eddsa"
Algorithms == {ED25519Key, "ecdsa"}
Threads == {"t1", "t2"}

(* ---- the cryptographic library and the key types (symbolic) ---- *)

\* ed25519.GenerateKey: the public key is a function of the private seed
PublicOf(seed) == 100 + seed

\* data.PublicKey.ID(): a digest of the public key
KeyID(pub) == (pub * 31 + 7) % 1009

\* data.NewED25519PublicKey
NewED25519PublicKey(pub) == [isNil |-> FALSE, algorithm |-> ED25519Key, public |-> pub]

\* data.NewED25519PrivateKey
NewED25519PrivateKey(public, priv) ==
    [isNil |-> FALSE, algorithm |-> public.algorithm, public |-> public.public,
     private |-> priv]

\* the nil data.PrivateKey of the zero edCryptoKey read from an absent map
\* entry: it yields no algorithm, no public and no private bytes
NilPrivateKey == [isNil |-> TRUE, algorithm |-> "", public |-> 0, private |-> 0]

\* the nil data.PublicKey
NilPublicKey == [isNil |-> TRUE, algorithm |-> "", public |-> 0]

\* data.PublicKeyFromPrivate: a new public key built from the algorithm and
\* the public bytes of pk (a zero-derived key when pk holds nothing)
PublicKeyFromPrivate(pk) ==
    [isNil |-> FALSE, algorithm |-> pk.algorithm, public |-> pk.public]

\* copy(priv[:], k.Private()) into a zero-filled array
CopyPrivate(k) == IF k.isNil THEN 0 ELSE k.private

\* k.ID() of a key: the digest of its public part
ID(k) == KeyID(k.public)

\* ed25519.Sign
Ed25519Sign(priv, toSign) == [signer |-> priv, msg |-> toSign]

\* ed25519.Verify
Ed25519Verify(pub, msg, sig) == sig.msg = msg /\ sig.signer # 0 /\ PublicOf(sig.signer) = pub

\* the identifier of a key the random source never delivers
UnknownID == KeyID(PublicOf(0))

KeyIDs == {KeyID(PublicOf(s)) : s \in Seeds} \cup {UnknownID}

SeqsUpTo(S, n) == UNION {[1..m -> S] : m \in 0..n}

Range(f) == {f[i] : i \in DOMAIN f}

EmptyMap == [x \in {} |-> x]

(* ---- the registry ---- *)

\* type edCryptoKey
edCryptoKey(role, privKey) == [role |-> role, privKey |-> privKey]

\* e.keys[keyID]: the zero edCryptoKey for an absent key
Lookup(ks, keyID) ==
    IF keyID \in DOMAIN ks THEN ks[keyID] ELSE edCryptoKey("", NilPrivateKey)

\* NewEd25519
NewEd25519 == EmptyMap

addKeyKeepFirst(ks, role, k) ==
    IF ID(k) \in DOMAIN ks THEN ks
    ELSE [id \in DOMAIN ks \cup {ID(k)} |->
            IF id = ID(k) THEN edCryptoKey(role, k) ELSE ks[id]]

addKeyAnyID(ks, role, k) ==
    [id \in DOMAIN ks \cup {UnknownID} |->
        IF id = UnknownID THEN edCryptoKey(role, k) ELSE ks[id]]

\* addKey
addKey(ks, role, k) ==
    [id \in DOMAIN ks \cup {ID(k)} |->
        IF id = ID(k) THEN edCryptoKey(role, k) ELSE ks[id]]

RemoveKeyAll(ks, keyID) ==
    [keys |-> IF keyID \in DOMAIN ks THEN EmptyMap ELSE ks, err |-> "nil"]

RemoveKeyNothing(ks, keyID) == [keys |-> ks, err |-> "nil"]

RemoveKeyStrict(ks, keyID) ==
    IF keyID \in DOMAIN ks
    THEN [keys |-> [id \in DOMAIN ks \ {keyID} |-> ks[id]], err |-> "nil"]
    ELSE [keys |-> ks, err |-> "KeyNotFound"]

\* RemoveKey
RemoveKey(ks, keyID) ==
    [keys |-> [id \in DOMAIN ks \ {keyID} |-> ks[id]], err |-> "nil"]

\* the orders in which range over the map may visit its keys
Orders(S) == {s \in [1..Cardinality(S) -> S] : Range(s) = S}

\* the loop of ListKeys: one append per key visited
RECURSIVE ListKeysLoop(_, _)
ListKeysLoop(order, keyIDs) ==
    IF order = <<>> THEN keyIDs
    ELSE ListKeysLoop(Tail(order), Append(keyIDs, Head(order)))

ListKeysFiltered(ks, role, order) ==
    SelectSeq(order, LAMBDA id : ks[id].role = role)

\* ListKeys: order is the order in which range visits e.keys; the role
\* argument is not used
ListKeys(ks, role, order) == ListKeysLoop(order, <<>>)

ListAllKeysNoRole(ks) == [id \in DOMAIN ks |-> ""]

\* ListAllKeys
ListAllKeys(ks) == [id \in DOMAIN ks |-> ks[id].role]

RECURSIVE SignLoop(_, _, _, _)
SignLoop(ks, keyIDs, toSign, signatures) ==
    IF keyIDs = <<>> THEN signatures
    ELSE LET keyID == Head(keyIDs)
             priv == CopyPrivate(Lookup(ks, keyID).privKey)
             sig == Ed25519Sign(priv, toSign)
         IN SignLoop(ks, Tail(keyIDs), toSign,
                Append(signatures,
                    [KeyID |-> keyID, Method |-> EDDSASignature, Signature |-> sig]))

Reverse(seq) == [i \in 1..Len(seq) |-> seq[Len(seq) + 1 - i]]

SignReversed(ks, keyIDs, toSign) ==
    [signatures |-> SignLoop(ks, Reverse(keyIDs), toSign, <<>>), err |-> "nil"]

SignZeroKey(ks, keyIDs, toSign) ==
    [signatures |-> SignLoop(EmptyMap, keyIDs, toSign, <<>>), err |-> "nil"]

\* Sign
Sign(ks, keyIDs, toSign) ==
    [signatures |-> SignLoop(ks, keyIDs, toSign, <<>>), err |-> "nil"]

CreateAnyAlgorithm(ks, role, algorithm, seed, genErr, privErr) ==
    LET public == NewED25519PublicKey(PublicOf(seed))
        private == NewED25519PrivateKey(public, seed)
    IN [keys |-> addKey(ks, role, private), pub |-> public, err |-> "nil"]

CreateRetries(ks, role, algorithm, seed, genErr, privErr) ==
    LET public == NewED25519PublicKey(PublicOf(seed))
        private == NewED25519PrivateKey(public, seed)
    IN IF algorithm # ED25519Key
       THEN [keys |-> ks, pub |-> NilPublicKey, err |-> "UnsupportedAlgorithm"]
       ELSE IF privErr
       THEN [keys |-> ks, pub |-> NilPublicKey, err |-> "KeyGenerationFailed"]
       ELSE [keys |-> addKey(ks, role, private), pub |-> public, err |-> "nil"]

CreateDropsRole(ks, role, algorithm, seed, genErr, privErr) ==
    LET public == NewED25519PublicKey(PublicOf(seed))
        private == NewED25519PrivateKey(public, seed)
    IN IF algorithm # ED25519Key
       THEN [keys |-> ks, pub |-> NilPublicKey, err |-> "UnsupportedAlgorithm"]
       ELSE IF genErr \/ privErr
       THEN [keys |-> ks, pub |-> NilPublicKey, err |-> "KeyGenerationFailed"]
       ELSE [keys |-> addKey(ks, "", private), pub |-> public, err |-> "nil"]

CreateFreshStore(ks, role, algorithm, seed, genErr, privErr) ==
    LET public == NewED25519PublicKey(PublicOf(seed))
        private == NewED25519PrivateKey(public, seed)
    IN IF algorithm # ED25519Key \/ genErr \/ privErr
       THEN [keys |-> ks, pub |-> NilPublicKey, err |-> "KeyGenerationFailed"]
       ELSE [keys |-> addKey(EmptyMap, role, private), pub |-> public, err |-> "nil"]

\* Create: seed is what the random source delivers, genErr and privErr
\* whether GenerateKey and NewED25519PrivateKey fail
Create(ks, role, algorithm, seed, genErr, privErr) ==
    IF algorithm # ED25519Key
    THEN [keys |-> ks, pub |-> NilPublicKey, err |-> "UnsupportedAlgorithm"]
    ELSE IF genErr
    THEN [keys |-> ks, pub |-> NilPublicKey, err |-> "KeyGenerationFailed"]
    ELSE LET public == NewED25519PublicKey(PublicOf(seed))
         IN IF privErr
            THEN [keys |-> ks, pub |-> NilPublicKey, err |-> "KeyGenerationFailed"]
            ELSE [keys |-> addKey(ks, role, NewED25519PrivateKey(public, seed)),
                  pub |-> public, err |-> "nil"]

RECURSIVE PublicKeysLoop(_, _, _)
PublicKeysLoop(ks, keyIDs, k) ==
    IF keyIDs = <<>> THEN k
    ELSE LET keyID == Head(keyIDs)
         IN PublicKeysLoop(ks, Tail(keyIDs),
                IF keyID \in DOMAIN ks
                THEN [id \in DOMAIN k \cup {keyID} |->
                        IF id = keyID THEN PublicKeyFromPrivate(ks[keyID].privKey)
                        ELSE k[id]]
                ELSE k)

PublicKeysNoCheck(ks, keyIDs) ==
    [k |-> [id \in Range(keyIDs) |-> PublicKeyFromPrivate(Lookup(ks, id).privKey)],
     err |-> "nil"]

\* PublicKeys
PublicKeys(ks, keyIDs) ==
    [k |-> PublicKeysLoop(ks, keyIDs, EmptyMap), err |-> "nil"]

\* GetKey
GetKey(ks, keyID) == PublicKeyFromPrivate(Lookup(ks, keyID).privKey)

\* GetPrivateKey
GetPrivateKey(ks, keyID) ==
    [privKey |-> Lookup(ks, keyID).privKey, role |-> "", err |-> "nil"]

(* ---- the state machine ---- *)

Init ==
    /\ keys = NewEd25519
    /\ call = [op |-> "NewEd25519"]
    /\ ret = [err |-> "nil"]
    /\ removed = {}
    /\ access = [t \in Threads |-> "idle"]

DoAddKey ==
    \E role \in Roles, seed \in Seeds :
        LET k == NewED25519PrivateKey(NewED25519PublicKey(PublicOf(seed)), seed)
        IN /\ keys' = addKey(keys, role, k)
           /\ call' = [op |-> "addKey", role |-> role, k |-> k,
                       replaced |-> ID(k) \in DOMAIN keys]
           /\ ret' = [err |-> "nil"]
           /\ removed' = removed \ {ID(k)}
           /\ UNCHANGED access

DoRemoveKey ==
    \E keyID \in KeyIDs :
        LET r == RemoveKey(keys, keyID)
        IN /\ keys' = r.keys
           /\ call' = [op |-> "RemoveKey", keyID |-> keyID]
           /\ ret' = [err |-> r.err]
           /\ removed' = removed \cup {keyID}
           /\ UNCHANGED access

DoListKeys ==
    \E role \in Roles, order \in Orders(DOMAIN keys) :
        /\ call' = [op |-> "ListKeys", role |-> role]
        /\ ret' = [keyIDs |-> ListKeys(keys, role, order), err |-> "nil"]
        /\ UNCHANGED <<keys, removed, access>>

DoListAllKeys ==
    /\ call' = [op |-> "ListAllKeys"]
    /\ ret' = [keys |-> ListAllKeys(keys), err |-> "nil"]
    /\ UNCHANGED <<keys, removed, access>>

DoSignConsumesKeys ==
    \E keyIDs \in SeqsUpTo(KeyIDs, MaxIDs), toSign \in Messages :
        LET r == Sign(keys, keyIDs, toSign)
        IN /\ call' = [op |-> "Sign", keyIDs |-> keyIDs, toSign |-> toSign]
           /\ ret' = r
           /\ keys' = [id \in DOMAIN keys \ Range(keyIDs) |-> keys[id]]
           /\ UNCHANGED <<removed, access>>

DoSign ==
    \E keyIDs \in SeqsUpTo(KeyIDs, MaxIDs), toSign \in Messages :
        LET r == Sign(keys, keyIDs, toSign)
        IN /\ call' = [op |-> "Sign", keyIDs |-> keyIDs, toSign |-> toSign]
           /\ ret' = r
           /\ UNCHANGED <<keys, removed, access>>

DoCreate ==
    \E role \in Roles, algorithm \in Algorithms, seed \in Seeds,
       genErr \in BOOLEAN, privErr \in BOOLEAN :
        LET r == Create(keys, role, algorithm, seed, genErr, privErr)
        IN /\ keys' = r.keys
           /\ call' = [op |-> "Create", role |-> role, algorithm |-> algorithm,
                       genErr |-> genErr, privErr |-> privErr]
           /\ ret' = [pub |-> r.pub, err |-> r.err]
           /\ removed' = IF r.err = "nil" THEN removed \ {ID(r.pub)} ELSE removed
           /\ UNCHANGED access

DoPublicKeys ==
    \E keyIDs \in SeqsUpTo(KeyIDs, MaxIDs) :
        /\ call' = [op |-> "PublicKeys", keyIDs |-> keyIDs]
        /\ ret' = PublicKeys(keys, keyIDs)
        /\ UNCHANGED <<keys, removed, access>>

DoGetKey ==
    \E keyID \in KeyIDs :
        /\ call' = [op |-> "GetKey", keyID |-> keyID]
        /\ ret' = [pub |-> GetKey(keys, keyID), err |-> "nil"]
        /\ UNCHANGED <<keys, removed, access>>

DoGetPrivateKey ==
    \E keyID \in KeyIDs :
        /\ call' = [op |-> "GetPrivateKey", keyID |-> keyID]
        /\ ret' = GetPrivateKey(keys, keyID)
        /\ UNCHANGED <<keys, removed, access>>

Next ==
    \/ DoCreate
    \/ DoAddKey
    \/ DoRemoveKey
    \/ DoListKeys
    \/ DoListAllKeys
    \/ DoSign
    \/ DoPublicKeys
    \/ DoGetKey
    \/ DoGetPrivateKey

Spec == Init /\ [][Next]_vars

(* ---- several threads on one store ---- *)

\* the operations that assign to or delete from e.keys
WriteOps == {"Create", "addKey", "RemoveKey"}

\* the operations that only read e.keys
ReadOps == {"ListKeys", "ListAllKeys", "GetKey", "GetPrivateKey", "PublicKeys", "Sign"}

\* a thread's access races with another access in progress when one of the
\* two writes the map
Races(t) ==
    \E u \in Threads \ {t} :
        /\ access[u] \in WriteOps \cup ReadOps
        /\ (access[t] \in WriteOps \/ access[u] \in WriteOps)

\* a thread reaches the map access of an operation; no method takes a lock,
\* so nothing makes it wait
EnterMap(t) ==
    \E op \in WriteOps \cup ReadOps :
        /\ access[t] = "idle"
        /\ access' = [access EXCEPT ![t] = op]
        /\ UNCHANGED <<keys, call, ret, removed>>

\* the effect on the registry of the write whose map access ends
WriteEffect(op) ==
    \/ /\ op = "Create"
       /\ \E role \in Roles, algorithm \in {ED25519Key}, seed \in Seeds :
            LET r == Create(keys, role, algorithm, seed, FALSE, FALSE)
            IN /\ keys' = r.keys
               /\ removed' = removed \ {ID(r.pub)}
    \/ /\ op = "addKey"
       /\ \E role \in Roles, seed \in Seeds :
            LET k == NewED25519PrivateKey(NewED25519PublicKey(PublicOf(seed)), seed)
            IN /\ keys' = addKey(keys, role, k)
               /\ removed' = removed \ {ID(k)}
    \/ /\ op = "RemoveKey"
       /\ \E keyID \in KeyIDs :
            /\ keys' = RemoveKey(keys, keyID).keys
            /\ removed' = removed \cup {keyID}

\* a thread's map access ends; the results returned to the threads are not
\* part of the state here
LeaveMap(t) ==
    /\ access[t] \in WriteOps \cup ReadOps
    /\ access' = [access EXCEPT ![t] = "idle"]
    /\ IF access[t] \in WriteOps
       THEN WriteEffect(access[t])
       ELSE UNCHANGED <<keys, removed>>
    /\ UNCHANGED <<call, ret>>

\* unsynchronised map accesses of which one writes: the Go runtime may stop
\* the process with a fatal error
FatalRace(t) ==
    /\ access[t] \in WriteOps \cup ReadOps
    /\ Races(t)
    /\ access' = [u \in Threads |-> "fatal"]
    /\ UNCHANGED <<keys, call, ret, removed>>

NextConc ==
    \/ \E t \in Threads : EnterMap(t)
    \/ \E t \in Threads : LeaveMap(t)
    \/ \E t \in Threads : FatalRace(t)

SpecConc == Init /\ [][NextConc]_vars

(* ---- properties ---- *)

Present(keyID) == keyID \in DOMAIN keys

SomeAbsent(keyIDs) == \E i \in DOMAIN keyIDs : ~Present(keyIDs[i])

\* C1: Sign fails with KeyNotFound and returns no signatures whenever one of
\* the requested identifiers is absent from the registry.
C1_SignFailsOnAbsentKey ==
    (call.op = "Sign" /\ SomeAbsent(call.keyIDs)) =>
        (ret.err = "KeyNotFound" /\ ret.signatures = <<>>)

\* C2: GetKey fails with KeyNotFound whenever the identifier is absent.
C2_GetKeyFailsOnAbsentKey ==
    (call.op = "GetKey" /\ ~Present(call.keyID)) => ret.err = "KeyNotFound"

\* C3: GetPrivateKey fails with KeyNotFound whenever the identifier is absent;
\* it never returns a nil error together with absent key material.
C3_GetPrivateKeyFailsOnAbsentKey ==
    (call.op = "GetPrivateKey" /\ ~Present(call.keyID)) =>
        (ret.err = "KeyNotFound" /\ ~(ret.err = "nil" /\ ret.privKey.isNil))

\* C4: for a present identifier GetPrivateKey returns the private material
\* and the role stored in its entry.
C4_GetPrivateKeyReturnsEntry ==
    (call.op = "GetPrivateKey" /\ Present(call.keyID)) =>
        /\ ret.privKey = keys[call.keyID].privKey
        /\ ret.role = keys[call.keyID].role

\* C5: an identifier that was removed and not inserted again is absent from
\* ListAllKeys(), from ListKeys(role) for every role and every listing order,
\* and from PublicKeys(id).
C5_RemovedStaysAbsent ==
    \A id \in removed :
        /\ id \notin DOMAIN ListAllKeys(keys)
        /\ \A role \in Roles, order \in Orders(DOMAIN keys) :
               id \notin Range(ListKeys(keys, role, order))
        /\ id \notin DOMAIN PublicKeys(keys, <<id>>).k

C5_Witness ==
    /\ call.op = "RemoveKey"
    /\ call.keyID # UnknownID
    /\ call.keyID \in removed
    /\ keys # EmptyMap

\* C6: RemoveKey never fails, leaves the registry unchanged when the
\* identifier is absent, leaves every other entry untouched, and a second
\* RemoveKey of the same identifier changes nothing.
C6_RemoveKeyIdempotent ==
    [][call'.op = "RemoveKey" =>
        /\ ret'.err = "nil"
        /\ call'.keyID \notin DOMAIN keys'
        /\ (call'.keyID \notin DOMAIN keys => keys' = keys)
        /\ \A id \in DOMAIN keys \ {call'.keyID} :
               id \in DOMAIN keys' /\ keys'[id] = keys[id]
        /\ DOMAIN keys' \subseteq DOMAIN keys
        /\ (call.op = "RemoveKey" /\ call.keyID = call'.keyID => keys' = keys)]_vars

C6_Witness ==
    /\ call.op = "RemoveKey"
    /\ ret.err = "nil"
    /\ ~Present(call.keyID)
    /\ keys # EmptyMap

\* C7: PublicKeys never returns an error and the domain of its result is
\* exactly the set of requested identifiers present in the registry.
C7_PublicKeysDomain ==
    call.op = "PublicKeys" =>
        /\ ret.err = "nil"
        /\ DOMAIN ret.k = Range(call.keyIDs) \cap DOMAIN keys

C7_Witness ==
    /\ call.op = "PublicKeys"
    /\ SomeAbsent(call.keyIDs)
    /\ \E i \in DOMAIN call.keyIDs : Present(call.keyIDs[i])
    /\ DOMAIN keys \ Range(call.keyIDs) # {}

\* C8: Create with an algorithm other than the supported one fails with
\* UnsupportedAlgorithm, returns no public key and leaves the registry as it was.
C8_CreateRejectsAlgorithm ==
    [][(call'.op = "Create" /\ call'.algorithm # ED25519Key) =>
        /\ ret'.err = "UnsupportedAlgorithm"
        /\ ret'.pub = NilPublicKey
        /\ keys' = keys]_vars

C8_Witness ==
    /\ call.op = "Create"
    /\ call.algorithm # ED25519Key
    /\ ret.err = "UnsupportedAlgorithm"
    /\ keys # EmptyMap

C10_SelfConsistent ==
    \A id \in DOMAIN keys :
        /\ ID(keys[id].privKey) = id
        /\ KeyID(PublicKeyFromPrivate(keys[id].privKey).public) = id
        /\ ID(GetKey(keys, id)) = id
        /\ ID(PublicKeys(keys, <<id>>).k[id]) = id

C10_Witness ==
    /\ call.op = "GetKey"
    /\ Present(call.keyID)
    /\ ID(ret.pub) = call.keyID
    /\ Cardinality(DOMAIN keys) >= 2

\* C11: a successful Create inserts exactly one entry, keyed by the identifier
\* derived from the generated public key, holding the requested role and the
\* generated private material, and returns that public key; ListAllKeys()
\* then maps the returned key's ID to the role.
C11_CreateInsertsEntry ==
    [][(call'.op = "Create" /\ ret'.err = "nil") =>
        LET id == ID(ret'.pub)
        IN /\ ~ret'.pub.isNil
           /\ DOMAIN keys' = DOMAIN keys \cup {id}
           /\ \A other \in DOMAIN keys \ {id} : keys'[other] = keys[other]
           /\ keys'[id].role = call'.role
           /\ PublicKeyFromPrivate(keys'[id].privKey) = ret'.pub
           /\ \E seed \in Seeds :
                  /\ PublicOf(seed) = ret'.pub.public
                  /\ keys'[id].privKey = NewED25519PrivateKey(ret'.pub, seed)
           /\ ListAllKeys(keys')[id] = call'.role]_vars

C11_Witness ==
    /\ call.op = "Create"
    /\ ret.err = "nil"
    /\ call.role = "targets"
    /\ Cardinality(DOMAIN keys) >= 2
    /\ ListAllKeys(keys)[ID(ret.pub)] = "targets"
    /\ \E id \in DOMAIN keys : keys[id].role = "root"

OtherMessages(m) == Messages \ {m}

\* C13: for a key that is present, Sign([keyID], msg) returns a signature that
\* verifies against the key's public key for msg and for no other message; in
\* particular a Sign of the key that the preceding Create returned verifies
\* against the public key Create returned.
C13_SignRoundTrip ==
    [][call'.op = "Sign" =>
        /\ \A i \in DOMAIN call'.keyIDs :
               call'.keyIDs[i] \in DOMAIN keys =>
                   LET pub == PublicKeyFromPrivate(keys[call'.keyIDs[i]].privKey).public
                       sig == ret'.signatures[i].Signature
                   IN /\ Ed25519Verify(pub, call'.toSign, sig)
                      /\ \A m \in OtherMessages(call'.toSign) :
                             ~Ed25519Verify(pub, m, sig)
        /\ (/\ call.op = "Create"
            /\ ret.err = "nil"
            /\ call'.keyIDs = <<ID(ret.pub)>>) =>
               /\ Len(ret'.signatures) = 1
               /\ Ed25519Verify(ret.pub.public, call'.toSign,
                                ret'.signatures[1].Signature)
               /\ \A m \in OtherMessages(call'.toSign) :
                      ~Ed25519Verify(ret.pub.public, m,
                                     ret'.signatures[1].Signature)]_vars

C13_Witness ==
    /\ call.op = "Sign"
    /\ Len(call.keyIDs) = 1
    /\ Present(call.keyIDs[1])
    /\ call.toSign = "hello"
    /\ Ed25519Verify(GetKey(keys, call.keyIDs[1]).public, "hello",
                     ret.signatures[1].Signature)
    /\ ~Ed25519Verify(GetKey(keys, call.keyIDs[1]).public, "hellO",
                      ret.signatures[1].Signature)

\* C14: when every requested identifier is present, Sign returns one signature
\* per input position, in input order, each with the KeyID of its position
\* and the fixed method tag.
C14_SignOrder ==
    (call.op = "Sign" /\ ~SomeAbsent(call.keyIDs)) =>
        /\ Len(ret.signatures) = Len(call.keyIDs)
        /\ \A i \in DOMAIN call.keyIDs :
               /\ ret.signatures[i].KeyID = call.keyIDs[i]
               /\ ret.signatures[i].Method = EDDSASignature
               /\ ret.signatures[i].Signature =
                      Ed25519Sign(keys[call.keyIDs[i]].privKey.private, call.toSign)

C14_Witness ==
    /\ call.op = "Sign"
    /\ Len(call.keyIDs) = 2
    /\ ~SomeAbsent(call.keyIDs)
    /\ call.keyIDs[1] # call.keyIDs[2]
    /\ ret.signatures[1].KeyID = call.keyIDs[1]
    /\ ret.signatures[2].KeyID = call.keyIDs[2]

\* C15: a Sign call leaves the registry unchanged, and repeating a Sign call
\* with the same identifiers and message in the same registry state returns
\* the same result.
C15_SignNoSideEffect ==
    [][call'.op = "Sign" =>
        /\ keys' = keys
        /\ ret'.err = "nil"
        /\ (/\ call.op = "Sign"
            /\ call.keyIDs = call'.keyIDs
            /\ call.toSign = call'.toSign) => ret' = ret]_vars

C15_Witness ==
    /\ call.op = "Sign"
    /\ Len(call.keyIDs) = 2
    /\ Present(call.keyIDs[1])
    /\ ~Present(call.keyIDs[2])
    /\ Cardinality(DOMAIN keys) = 2

C18_CreateFailurePropagates ==
    [][(call'.op = "Create" /\ call'.algorithm = ED25519Key) =>
        /\ (call'.genErr \/ call'.privErr) =>
               /\ ret'.err = "KeyGenerationFailed"
               /\ ret'.pub = NilPublicKey
               /\ keys' = keys
        /\ (keys' # keys \/ ret'.err = "nil") =>
               (~call'.genErr /\ ~call'.privErr)]_vars

C18_Witness ==
    /\ call.op = "Create"
    /\ call.algorithm = ED25519Key
    /\ call.genErr
    /\ ~call.privErr
    /\ ret.err = "KeyGenerationFailed"
    /\ keys # EmptyMap

\* C19: the registry starts empty; an entry appears or changes only in a
\* successful Create or addKey, disappears only in a RemoveKey of its
\* identifier, and the read operations never change the registry.
C19_Lifecycle ==
    /\ keys = EmptyMap
    /\ [][/\ \A id \in DOMAIN keys' \ DOMAIN keys :
                \/ call'.op = "Create" /\ ret'.err = "nil" /\ ID(ret'.pub) = id
                \/ call'.op = "addKey" /\ ID(call'.k) = id
          /\ \A id \in DOMAIN keys \ DOMAIN keys' :
                call'.op = "RemoveKey" /\ call'.keyID = id
          /\ \A id \in DOMAIN keys \cap DOMAIN keys' :
                keys'[id] # keys[id] =>
                    \/ call'.op = "Create" /\ ret'.err = "nil" /\ ID(ret'.pub) = id
                    \/ call'.op = "addKey" /\ ID(call'.k) = id
          /\ call'.op \in ReadOps => keys' = keys]_vars

C19_Witness ==
    /\ call.op = "GetPrivateKey"
    /\ ~Present(call.keyID)
    /\ call.keyID \in removed
    /\ keys # EmptyMap

\* C20: addKey for a key whose identifier is already stored replaces the
\* entry: the number of entries is unchanged, the role recorded for the
\* identifier is that of the latest addKey, and every other entry is untouched.
C20_AddKeyReplaces ==
    [][(call'.op = "addKey" /\ ID(call'.k) \in DOMAIN keys) =>
        /\ ret'.err = "nil"
        /\ DOMAIN keys' = DOMAIN keys
        /\ Cardinality(DOMAIN keys') = Cardinality(DOMAIN keys)
        /\ keys'[ID(call'.k)] = edCryptoKey(call'.role, call'.k)
        /\ \A other \in DOMAIN keys \ {ID(call'.k)} : keys'[other] = keys[other]]_vars

C20_Witness ==
    /\ call.op = "addKey"
    /\ call.replaced
    /\ call.role = "targets"
    /\ keys[ID(call.k)].role = "targets"
    /\ Cardinality(DOMAIN keys) = 2

\* C12: no state has a registry-mutating operation inside its map access
\* while another thread's mutating or reading operation is inside its own.
C12_MutualExclusion ==
    \A t \in Threads, u \in Threads :
        (t # u /\ access[t] \in WriteOps) => access[u] \notin WriteOps \cup ReadOps

====
